---- MODULE Spec2Model ----
(***************************************************************************)
(* Tennis Elo predictor (src/app.py, src/app1.py).                         *)
(*                                                                         *)
(* Both files are Streamlit scripts that run top to bottom: load_data      *)
(* builds the frame `matches`, the frame is sorted by tourney_date, the    *)
(* replay loop calls update_elo once per row, and the page then shows a    *)
(* win probability and a leaderboard.  app.py keeps one rating per player, *)
(* app1.py one rating per player and surface and adds a live source.       *)
(*                                                                         *)
(* Ratings are Python floats.  The model keeps the structure of binary     *)
(* floating point (every operation is the exact result rounded to the      *)
(* nearest value with Precision significant bits, ties to even) with a     *)
(* narrower significand than the 53 bits of a Python float.  A value v is  *)
(* held as the integer v * 2^FracBits.                                     *)
(***************************************************************************)
EXTENDS Integers, Sequences, FiniteSets, TLC

VARIABLES
    script,       \* which file runs: "app" (src/app.py) or "app1" (src/app1.py)
    pc,           \* position of the script
    hist,         \* rows of the concatenated yearly CSV files, in file order
    live,         \* rows of the Google Sheet CSV, in file order (app1.py)
    matches,      \* the frame `matches`
    i,            \* 1-based position of the replay loop in `matches`
    elo_ratings,  \* the global dictionary elo_ratings
    reads,        \* the get_elo calls of the last step: store before/after, result
    players,      \* sorted(elo_ratings.keys())
    surface,      \* the surface select box
    player1,      \* the "Player 1" select box
    player2,      \* the "Player 2" select box
    message,      \* what the prediction block shows: "none", "warning", "success"
    prob,         \* <<prob>> once expected_score has been called for the page
    top_df        \* the leaderboard frame shown, a sequence of <<Player, Elo>>

vars == <<script, pc, hist, live, matches, i, elo_ratings, reads,
          players, surface, player1, player2, message, prob, top_df>>

-----------------------------------------------------------------------------
(* Bounds of the model.                                                    *)

\* significand bits of the model's floats (a Python float has 53)
Precision == 9
\* rows read from the yearly CSV files
MaxHist == 2
\* rows read from the Google Sheet
MaxLive == 1
\* largest tourney_date
MaxDate == 2
\* rows replayed when the sorted frame is streamed (SpecReplay)
MaxMatches == 4
\* rows replayed before the page is queried (SpecQuery)
MaxSession == 2

\* a missing cell (pandas NaN)
NaN == "NaN"
\* a missing tourney_date
NaT == 0 - 1

Names == {"A", "B"}
Names3 == {"A", "B", "C"}
Dates == 1..MaxDate

-----------------------------------------------------------------------------
(* Binary floating point with Precision significant bits.                  *)

\* fraction bits of the integer encoding: the smallest positive float is 2^-FracBits
FracBits == 19
ONE == 2^FracBits

Abs(n) == IF n < 0 THEN 0 - n ELSE n
Max2(a, b) == IF a >= b THEN a ELSE b

\* number of bits of a (0 <= a < 2^31), by halving the search range
BitLen4(a) == IF a < 4 THEN (IF a < 2 THEN a ELSE 2) ELSE (IF a < 8 THEN 3 ELSE 4)
BitLen8(a) == IF a < 16 THEN BitLen4(a) ELSE 4 + BitLen4(a \div 16)
BitLen16(a) == IF a < 256 THEN BitLen8(a) ELSE 8 + BitLen8(a \div 256)
BitLen(a) == IF a < 65536 THEN BitLen16(a) ELSE 16 + BitLen16(a \div 65536)

\* v / 2^d rounded to the nearest integer, ties to even (v >= 0, d >= 0)
RoundHalfEven(v, d) ==
    LET q == v \div (2^d)
        r == v % (2^d)
    IN  IF d = 0 THEN v
        ELSE IF r > 2^(d-1) \/ (r = 2^(d-1) /\ q % 2 = 1) THEN q + 1 ELSE q

\* v * 2^s (v >= 0) rounded to Precision significant bits
RoundTo(v, s) ==
    LET d == Max2(Max2(BitLen(v) - Precision, 0 - s), 0)
    IN  RoundHalfEven(v, d) * 2^(d + s)

\* the float nearest to the exact value n
fl(n) == IF n >= 0 THEN RoundTo(n, 0) ELSE 0 - RoundTo(0 - n, 0)

\* a > 0 as <<m, t>>: a = m * 2^t with 2^(Precision-1) <= m < 2^Precision
Norm(a) ==
    LET t == BitLen(a) - Precision
    IN  IF t >= 0 THEN <<a \div (2^t), t>> ELSE <<a * 2^(0 - t), t>>

Sign(a, b) == IF (a < 0) = (b < 0) THEN 1 ELSE 0 - 1

\* int -> float (exact for the integers the scripts use)
FromInt(n) == n * ONE

\* float +, -, *, /
fadd(a, b) == fl(a + b)
fsub(a, b) == fl(a - b)
fmul(a, b) ==
    IF a = 0 \/ b = 0 THEN 0
    ELSE LET x == Norm(Abs(a))
             y == Norm(Abs(b))
         IN  Sign(a, b) * RoundTo(x[1] * y[1], x[2] + y[2] - FracBits)
fdiv(a, b) ==
    IF a = 0 THEN 0
    ELSE LET x == Norm(Abs(a))
             y == Norm(Abs(b))
             g == 30 - Precision
             n == x[1] * 2^g
             q == n \div y[1]
             sticky == IF n % y[1] = 0 THEN 0 ELSE 1
         IN  Sign(a, b) * RoundTo(2 * q + sticky, x[2] - y[2] + FracBits - g - 1)

\* 10 ** x is computed, as libm does, in a wider working format and then
\* rounded: the product of the factors 10^(+-2^-k) over the bits of |x|.
\* round(10^(2^-k) * 2^WorkBits), k = 1..20
Pow10Pos == <<51811, 29135, 21848, 18920, 17606, 16984, 16681, 16532, 16458, 16421,
              16402, 16393, 16389, 16386, 16385, 16385, 16384, 16384, 16384, 16384>>
\* round(10^(-2^-k) * 2^WorkBits), k = 1..20
Pow10Neg == <<5181, 9213, 12286, 14188, 15246, 15805, 16092, 16237, 16310, 16347,
              16366, 16375, 16379, 16382, 16383, 16383, 16384, 16384, 16384, 16384>>

\* the scale of the tables: their last entries are 1.0 * 2^WorkBits
WorkBits == BitLen(Pow10Pos[20]) - 1

RECURSIVE PowBits(_, _, _, _)
\* the bits k.. of a taken into the product; the bits left are all 0 when
\* a is a multiple of 2^(FracBits - k + 1)
PowBits(a, T, k, acc) ==
    IF k > FracBits \/ a % 2^(FracBits - k + 1) = 0 THEN acc
    ELSE PowBits(a, T, k + 1,
                 IF (a \div 2^(FracBits - k)) % 2 = 1
                 THEN RoundHalfEven(acc * T[k], WorkBits) ELSE acc)

\* float 10 ** x, for |x| < 1
fpow10(x) ==
    CASE Abs(x) < ONE ->
        RoundTo(PowBits(Abs(x), IF x >= 0 THEN Pow10Pos ELSE Pow10Neg,
                        Max2(1, FracBits + 1 - BitLen(Abs(x))), 2^WorkBits),
                FracBits - WorkBits)

-----------------------------------------------------------------------------
(* The Elo rating system.                                                  *)

BASE_ELO == 1500
K == 32

\* Python dict operations
DictGet(d, k, default) == IF k \in DOMAIN d THEN d[k] ELSE default
DictSet(d, k, v) == [x \in DOMAIN d \cup {k} |-> IF x = k THEN v ELSE d[x]]
EmptyDict == [x \in {} |-> 0]

\* a get_elo call: its arguments, the store before and after, the value returned
Read(player, surf, before, after, value) ==
    [player |-> player, surface |-> surf, before |-> before, after |-> after,
     value |-> value]

\* app.py: elo_ratings.get(player, BASE_ELO)
app_get_elo(store, player) ==
    Read(player, "none", store, store, DictGet(store, player, FromInt(BASE_ELO)))

\* app1.py: inserts an empty dictionary for a player not yet in elo_ratings
get_elo(store, player, surf) ==
    LET after == IF player \notin DOMAIN store
                 THEN DictSet(store, player, EmptyDict) ELSE store
    IN  Read(player, surf, store, after, DictGet(after[player], surf, FromInt(BASE_ELO)))

\* expected_score with `1 / 1 + 10 ** ((Rb - Ra) / 400)`: the parentheses of the
\* denominator are missing
expected_score_flat(Ra, Rb) ==
    fadd(fdiv(FromInt(1), FromInt(1)), fpow10(fdiv(fsub(Rb, Ra), FromInt(400))))

expected_score(Ra, Rb) ==
    fdiv(FromInt(1),
         fadd(FromInt(1), fpow10(fdiv(fsub(Rb, Ra), FromInt(400)))))

\* app.py: the two get_elo calls and the store after both assignments
app_update_elo(store, winner, loser) ==
    LET g1 == app_get_elo(store, winner)
        g2 == app_get_elo(g1.after, loser)
        Ra == g1.value
        Rb == g2.value
        Ea == expected_score(Ra, Rb)
        Ra_new == fadd(Ra, fmul(FromInt(K), fsub(FromInt(1), Ea)))
        Rb_new == fsub(Rb, fmul(FromInt(K), fsub(FromInt(1), Ea)))
    IN  [reads |-> <<g1, g2>>,
         store |-> DictSet(DictSet(g2.after, winner, Ra_new), loser, Rb_new)]

\* update_elo with `Rb_new = Rb - K * Ea`: the loser pays the expected score
update_elo_ea(store, winner, loser, surf) ==
    LET g1 == get_elo(store, winner, surf)
        g2 == get_elo(g1.after, loser, surf)
        Ra == g1.value
        Rb == g2.value
        Ea == expected_score(Ra, Rb)
        Ra_new == fadd(Ra, fmul(FromInt(K), fsub(FromInt(1), Ea)))
        Rb_new == fsub(Rb, fmul(FromInt(K), Ea))
        s1 == [g2.after EXCEPT ![winner] = DictSet(@, surf, Ra_new)]
        s2 == [s1 EXCEPT ![loser] = DictSet(@, surf, Rb_new)]
    IN  [reads |-> <<g1, g2>>, store |-> s2]

\* update_elo with `Rb_new = Rb + K * (1 - Ea)`: the loser gains what the winner gains
update_elo_plus(store, winner, loser, surf) ==
    LET g1 == get_elo(store, winner, surf)
        g2 == get_elo(g1.after, loser, surf)
        Ra == g1.value
        Rb == g2.value
        Ea == expected_score(Ra, Rb)
        Ra_new == fadd(Ra, fmul(FromInt(K), fsub(FromInt(1), Ea)))
        Rb_new == fadd(Rb, fmul(FromInt(K), fsub(FromInt(1), Ea)))
        s1 == [g2.after EXCEPT ![winner] = DictSet(@, surf, Ra_new)]
        s2 == [s1 EXCEPT ![loser] = DictSet(@, surf, Rb_new)]
    IN  [reads |-> <<g1, g2>>, store |-> s2]

\* update_elo with `elo_ratings[winner] = {surface: Ra_new}`: the winner's
\* dictionary is replaced instead of one of its cells
update_elo_reset(store, winner, loser, surf) ==
    LET g1 == get_elo(store, winner, surf)
        g2 == get_elo(g1.after, loser, surf)
        Ra == g1.value
        Rb == g2.value
        Ea == expected_score(Ra, Rb)
        Ra_new == fadd(Ra, fmul(FromInt(K), fsub(FromInt(1), Ea)))
        Rb_new == fsub(Rb, fmul(FromInt(K), fsub(FromInt(1), Ea)))
        s1 == [g2.after EXCEPT ![winner] = DictSet(EmptyDict, surf, Ra_new)]
        s2 == [s1 EXCEPT ![loser] = DictSet(@, surf, Rb_new)]
    IN  [reads |-> <<g1, g2>>, store |-> s2]

\* app1.py: the same on the cells of one surface
update_elo(store, winner, loser, surf) ==
    LET g1 == get_elo(store, winner, surf)
        g2 == get_elo(g1.after, loser, surf)
        Ra == g1.value
        Rb == g2.value
        Ea == expected_score(Ra, Rb)
        Ra_new == fadd(Ra, fmul(FromInt(K), fsub(FromInt(1), Ea)))
        Rb_new == fsub(Rb, fmul(FromInt(K), fsub(FromInt(1), Ea)))
        s1 == [g2.after EXCEPT ![winner] = DictSet(@, surf, Ra_new)]
        s2 == [s1 EXCEPT ![loser] = DictSet(@, surf, Rb_new)]
    IN  [reads |-> <<g1, g2>>, store |-> s2]

\* the loop body of either script on one row
ReplayRow(store, row) ==
    IF script = "app"
    THEN app_update_elo(store, row.winner_name, row.loser_name)
    ELSE update_elo(store, row.winner_name, row.loser_name, row.surface)


-----------------------------------------------------------------------------
(* load_data: the frames read from the sources, and what is kept of them.  *)

\* the rows a source may hold: at most one cell of a row is missing
Missing(r) ==
    (IF r.tourney_date = NaT THEN 1 ELSE 0) + (IF r.surface = NaN THEN 1 ELSE 0)
    + (IF r.winner_name = NaN THEN 1 ELSE 0) + (IF r.loser_name = NaN THEN 1 ELSE 0)
RawRows ==
    {r \in [tourney_date : Dates \cup {NaT}, surface : {"Hard", NaN},
            winner_name : Names \cup {NaN}, loser_name : Names \cup {NaN}] :
        Missing(r) <= 1}

\* str.lower() of a surface cell; a missing cell stays missing
lower(s) ==
    CASE s = "Hard" -> "hard"
      [] s = "Clay" -> "clay"
      [] s = "Grass" -> "grass"
      [] OTHER -> s

\* DataFrame.dropna(): rows with any missing cell are dropped
dropna(df) == SelectSeq(df, LAMBDA r : Missing(r) = 0)
\* DataFrame.dropna(subset=['winner_name', 'loser_name'])
dropna_names(df) == SelectSeq(df, LAMBDA r : r.winner_name # NaN /\ r.loser_name # NaN)

\* app.py load_data
app_load_data(h) == dropna_names(h)

\* the number of positions of df that hold row r
Count(df, r) == Cardinality({k \in 1..Len(df) : df[k] = r})

\* load_data with drop_duplicates() after the concatenation: a row that stands
\* earlier in the frame is dropped
load_data_dedup(h, l) ==
    LET m == dropna(h) \o l
        keep == SelectSeq([k \in 1..Len(m) |-> <<k, m[k]>>],
                          LAMBDA e : \A j \in 1..(e[1] - 1) : m[j] # e[2])
    IN  [k \in 1..Len(keep) |-> [keep[k][2] EXCEPT !.surface = lower(@)]]

\* app1.py load_data: the live rows are appended after dropna()
load_data(h, l) ==
    LET m == dropna(h) \o l
    IN  [k \in 1..Len(m) |-> [m[k] EXCEPT !.surface = lower(@)]]

Perms(n) == {p \in [1..n -> 1..n] : \A a, b \in 1..n : a # b => p[a] # p[b]}

\* d1 may stand before d2 in ascending order with na_position='last'
DateLE(d1, d2) == d2 = NaT \/ (d1 # NaT /\ d1 <= d2)

\* DataFrame.sort_values('tourney_date'): kind='quicksort' is not stable, so rows
\* of equal date come out in any order; rows without a date follow in input order
sort_values(df) ==
    LET n == Len(df)
        ok(p) == \A a, b \in 1..n : a < b =>
                    /\ DateLE(df[p[a]].tourney_date, df[p[b]].tourney_date)
                    /\ (df[p[a]].tourney_date = NaT /\ df[p[b]].tourney_date = NaT)
                          => p[a] < p[b]
    IN  {[k \in 1..n |-> df[p[k]]] : p \in {q \in Perms(n) : ok(q)}}

-----------------------------------------------------------------------------
(* The page: select boxes, prediction and leaderboard.                     *)

surfaces == <<"hard", "clay", "grass">>

\* the order of str on the names of the model
NameRank(name) == CASE name = "A" -> 1 [] name = "B" -> 2 [] name = "C" -> 3

\* sorted(elo_ratings.keys()), defined when the keys are comparable
sorted_keys(store) ==
    LET ks == DOMAIN store
        n == Cardinality(ks)
    IN  IF ks = {NaN} THEN <<NaN>>
        ELSE CHOOSE seq \in [1..n -> ks] :
                \A a, b \in 1..n : a < b => NameRank(seq[a]) < NameRank(seq[b])

\* rows of the leaderboard frame before it is sorted
app_top_players(store) == {<<p, store[p]>> : p \in DOMAIN store}
top_players(store, surf) ==
    {<<p, DictGet(store[p], surf, FromInt(BASE_ELO))>> : p \in DOMAIN store}

\* sort_values('Elo') with the default ascending=True
sort_asc(rows) ==
    LET n == Cardinality(rows)
    IN  {seq \in [1..n -> rows] :
            /\ \A a, b \in 1..n : a # b => seq[a] # seq[b]
            /\ \A a, b \in 1..n : a < b => seq[a][2] <= seq[b][2]}

\* sort_values('Elo', ascending=False): rows of equal Elo come out in any order
sort_desc(rows) ==
    LET n == Cardinality(rows)
    IN  {seq \in [1..n -> rows] :
            /\ \A a, b \in 1..n : a # b => seq[a] # seq[b]
            /\ \A a, b \in 1..n : a < b => seq[a][2] >= seq[b][2]}

head(df, n) == SubSeq(df, 1, IF n < Len(df) THEN n ELSE Len(df))

\* head(20) in app.py, head(200) in app1.py
app_TOP == 20
TOP == 200

-----------------------------------------------------------------------------
(* One run of a script, from the sources to the end of the replay loop.    *)

Init ==
    /\ script \in {"app", "app1"}
    /\ pc = "read"
    /\ hist = <<>>
    /\ live = <<>>
    /\ matches = <<>>
    /\ i = 1
    /\ elo_ratings = EmptyDict
    /\ reads = <<>>
    /\ players = <<>>
    /\ surface = "none"
    /\ player1 = "none"
    /\ player2 = "none"
    /\ message = "none"
    /\ prob = <<>>
    /\ top_df = <<>>

\* pd.read_csv of the yearly files: one more row of the concatenated frame
ReadHistRow ==
    /\ pc = "read"
    /\ live = <<>>
    /\ Len(hist) < MaxHist
    /\ \E r \in RawRows : hist' = Append(hist, r)
    /\ UNCHANGED <<script, pc, live, matches, i, elo_ratings, reads, players, surface,
                   player1, player2, message, prob, top_df>>

\* pd.read_csv(gsheet_url): one more row of the live frame (app1.py)
ReadLiveRow ==
    /\ pc = "read"
    /\ script = "app1"
    /\ Len(live) < MaxLive
    /\ \E r \in RawRows : live' = Append(live, r)
    /\ UNCHANGED <<script, pc, hist, matches, i, elo_ratings, reads, players, surface,
                   player1, player2, message, prob, top_df>>

LoadData ==
    /\ pc = "read"
    /\ matches' = IF script = "app" THEN app_load_data(hist) ELSE load_data(hist, live)
    /\ pc' = "sort"
    /\ UNCHANGED <<script, hist, live, i, elo_ratings, reads, players, surface,
                   player1, player2, message, prob, top_df>>

SortMatches ==
    /\ pc = "sort"
    /\ matches' \in sort_values(matches)
    /\ pc' = "replay"
    /\ UNCHANGED <<script, hist, live, i, elo_ratings, reads, players, surface,
                   player1, player2, message, prob, top_df>>

\* one iteration of `for _, row in matches.iterrows()`
Replay ==
    /\ pc = "replay"
    /\ i <= Len(matches)
    /\ \E r \in {ReplayRow(elo_ratings, matches[i])} :
          /\ elo_ratings' = r.store
          /\ reads' = r.reads
    /\ i' = i + 1
    /\ UNCHANGED <<script, pc, hist, live, matches, players, surface, player1, player2,
                   message, prob, top_df>>

\* players = sorted(elo_ratings.keys()): str and float keys do not compare
SortPlayers ==
    /\ pc = "replay"
    /\ i = Len(matches) + 1
    /\ IF NaN \in DOMAIN elo_ratings /\ DOMAIN elo_ratings # {NaN}
       THEN pc' = "TypeError" /\ UNCHANGED players
       ELSE pc' = "page" /\ players' = sorted_keys(elo_ratings)
    /\ UNCHANGED <<script, hist, live, matches, i, elo_ratings, reads, surface,
                   player1, player2, message, prob, top_df>>

Next == ReadHistRow \/ ReadLiveRow \/ LoadData \/ SortMatches \/ Replay \/ SortPlayers

Spec == Init /\ [][Next]_vars

-----------------------------------------------------------------------------
(* Streamed replay: iterrows() yields the next row of the sorted frame.    *)

ReplayFeed ==
    [tourney_date : {1}, surface : {"hard"}, winner_name : Names3, loser_name : Names3]

InitReplay ==
    /\ script \in {"app", "app1"}
    /\ pc = "replay"
    /\ hist = <<>>
    /\ live = <<>>
    /\ matches = <<>>
    /\ i = 1
    /\ elo_ratings = EmptyDict
    /\ reads = <<>>
    /\ players = <<>>
    /\ surface = "none"
    /\ player1 = "none"
    /\ player2 = "none"
    /\ message = "none"
    /\ prob = <<>>
    /\ top_df = <<>>

StreamRow(rows, max) ==
    /\ pc = "replay"
    /\ Len(matches) < max
    /\ \E row \in rows :
          /\ Len(matches) > 0 => matches[Len(matches)].tourney_date <= row.tourney_date
          /\ matches' = Append(matches, row)
          /\ \E r \in {ReplayRow(elo_ratings, row)} :
                /\ elo_ratings' = r.store
                /\ reads' = r.reads
    /\ i' = i + 1
    /\ UNCHANGED <<script, pc, hist, live, players, surface, player1, player2,
                   message, prob, top_df>>

NextReplay == StreamRow(ReplayFeed, MaxMatches)

SpecReplay == InitReplay /\ [][NextReplay]_vars

-----------------------------------------------------------------------------
(* The page after a streamed replay.                                       *)

QueryFeed ==
    [tourney_date : {1}, surface : {"hard", "clay"}, winner_name : Names3,
     loser_name : Names3]

\* app1.py lines 96-125
Page ==
    /\ pc = "page"
    /\ script = "app1"
    /\ \E s \in {surfaces[k] : k \in 1..Len(surfaces)} :
        /\ surface' = s
        /\ CASE Len(players) = 0 ->
                  /\ player1' = "None"
                  /\ player2' = "None"
                  /\ message' = "warning"
                  /\ top_df' = <<>>
                  /\ pc' = "done"
                  /\ UNCHANGED <<elo_ratings, reads, prob>>
             [] Len(players) = 1 ->
                  \* index=1 is out of range for the second select box
                  /\ player1' = players[1]
                  /\ pc' = "StreamlitAPIException"
                  /\ UNCHANGED <<player2, message, top_df, elo_ratings, reads, prob>>
             [] OTHER ->
                  \E p1, p2 \in {players[k] : k \in 1..Len(players)} :
                    /\ player1' = p1
                    /\ player2' = p2
                    /\ IF p1 = p2
                       THEN /\ message' = "warning"
                            /\ UNCHANGED <<elo_ratings, reads, prob>>
                       ELSE \E g1 \in {get_elo(elo_ratings, p1, s)} :
                            \E g2 \in {get_elo(g1.after, p2, s)} :
                              /\ message' = "success"
                              /\ prob' = <<expected_score(g1.value, g2.value)>>
                              /\ reads' = <<g1, g2>>
                              /\ elo_ratings' = g2.after
                    /\ top_df' \in {head(df, TOP) : df \in sort_desc(top_players(elo_ratings', s))}
                    /\ pc' = "done"
    /\ UNCHANGED <<script, hist, live, matches, i, players>>

\* app.py lines 67-99
app_Page ==
    /\ pc = "page"
    /\ script = "app"
    /\ CASE Len(players) = 0 ->
              /\ player1' = "None"
              /\ player2' = "None"
              /\ message' = "warning"
              /\ top_df' = <<>>
              /\ pc' = "done"
              /\ UNCHANGED <<reads, prob>>
         [] Len(players) = 1 ->
              /\ player1' = players[1]
              /\ pc' = "StreamlitAPIException"
              /\ UNCHANGED <<player2, message, top_df, reads, prob>>
         [] OTHER ->
              \E p1, p2 \in {players[k] : k \in 1..Len(players)} :
                /\ player1' = p1
                /\ player2' = p2
                /\ IF p1 = p2
                   THEN /\ message' = "warning"
                        /\ UNCHANGED <<reads, prob>>
                   ELSE \E g1 \in {app_get_elo(elo_ratings, p1)} :
                        \E g2 \in {app_get_elo(elo_ratings, p2)} :
                          /\ message' = "success"
                          /\ prob' = <<expected_score(g1.value, g2.value)>>
                          /\ reads' = <<g1, g2>>
                /\ top_df' \in {head(df, app_TOP) : df \in sort_desc(app_top_players(elo_ratings))}
                /\ pc' = "done"
    /\ UNCHANGED <<script, hist, live, matches, i, players, surface, elo_ratings>>

NextQuery == StreamRow(QueryFeed, MaxSession) \/ SortPlayers \/ Page \/ app_Page

SpecQuery == InitReplay /\ [][NextQuery]_vars

-----------------------------------------------------------------------------
(* Vocabulary of the properties.                                           *)

Partitions == {"hard", "clay", "grass"}

\* the stored cell of competitor c in partition p: <<rating>>, or <<>> when absent
Cell(store, c, p) ==
    IF c \notin DOMAIN store THEN <<>>
    ELSE IF script = "app" THEN <<store[c]>>
    ELSE IF p \in DOMAIN store[c] THEN <<store[c][p]>> ELSE <<>>

\* the rating of c in p: the stored cell, or the baseline
Rating(store, c, p) ==
    IF Cell(store, c, p) = <<>> THEN FromInt(BASE_ELO) ELSE Cell(store, c, p)[1]

\* the rows the replay loop has passed to update_elo
Applied == SubSeq(matches, 1, i - 1)

\* the loop has run one more iteration in this step
ReplayStep == i' = i + 1

-----------------------------------------------------------------------------
\* C1: a replay step on a record (winner A, loser B, partition p) with A # B
\* changes only the cells (A, p) and (B, p): every other stored cell, of every
\* competitor and partition, is the same after the step as before it, and no
\* other competitor appears in or leaves the store.
C1_FrameEffect ==
    [][ReplayStep =>
          LET row == matches'[i]
          IN  row.winner_name # row.loser_name =>
                /\ DOMAIN elo_ratings' \subseteq
                      DOMAIN elo_ratings \cup {row.winner_name, row.loser_name}
                /\ \A c \in DOMAIN elo_ratings \cup DOMAIN elo_ratings', p \in Partitions :
                      (c \in {row.winner_name, row.loser_name} /\
                       (script = "app" \/ p = row.surface))
                      \/ Cell(elo_ratings', c, p) = Cell(elo_ratings, c, p)]_vars

\* a record between two competitors was replayed while a third competitor and
\* another partition of the winner already held ratings
C1_Witness ==
    /\ script = "app1"
    /\ Len(matches) >= 2
    /\ i = Len(matches) + 1
    /\ LET row == matches[Len(matches)]
       IN  /\ row.winner_name # row.loser_name
           /\ \E c \in DOMAIN elo_ratings \ {row.winner_name, row.loser_name} :
                 DOMAIN elo_ratings[c] # {}
           /\ \E q \in DOMAIN elo_ratings[row.winner_name] : q # row.surface

-----------------------------------------------------------------------------
\* C2: get(competitor, partition) is a pure read: every get_elo call returns the
\* stored rating, or the baseline 1500 when the cell is absent, and leaves the
\* store, with its set of known competitors, as it found it.
C2_PureRead ==
    \A k \in 1..Len(reads) :
        /\ reads[k].after = reads[k].before
        /\ reads[k].value = Rating(reads[k].before, reads[k].player, reads[k].surface)

-----------------------------------------------------------------------------
\* C3: every row load_data outputs has all four fields (date, surface, winner
\* name, loser name); a row missing one of them never reaches the replay loop.
C3_RowsComplete ==
    pc # "read" => \A k \in 1..Len(matches) : Missing(matches[k]) = 0

-----------------------------------------------------------------------------
\* C4: no record with winner = loser is passed to update_elo: in every replay
\* step the two competitors updated are distinct.
C4_DistinctCompetitors ==
    \A k \in 1..Len(Applied) : Applied[k].winner_name # Applied[k].loser_name

-----------------------------------------------------------------------------
\* the frame load_data returned in this run
Loaded == IF script = "app" THEN app_load_data(hist) ELSE load_data(hist, live)

\* df sorted by date with a stable sort
StableSorted(df) ==
    LET n == Len(df)
        p == CHOOSE q \in Perms(n) : \A a, b \in 1..n : a < b =>
                \/ /\ DateLE(df[q[a]].tourney_date, df[q[b]].tourney_date)
                   /\ df[q[a]].tourney_date # df[q[b]].tourney_date
                \/ /\ df[q[a]].tourney_date = df[q[b]].tourney_date
                   /\ q[a] < q[b]
    IN  [k \in 1..n |-> df[p[k]]]

\* C5: the replay applies update_elo once per row of load_data's output, in
\* ascending order of date, rows of equal date in the order in which they stand
\* in the concatenated input.
C5_StableReplay ==
    pc \in {"page", "TypeError"} => Applied = StableSorted(Loaded)

-----------------------------------------------------------------------------
\* C6: when a record stands in the historical rows and in the live rows, the
\* frame load_data returns holds it once more than the historical rows do, the
\* replay applies update_elo once per row of the frame, and when the record is
\* all the input the final store is the store of two replays of it, not of one.
C6_DuplicateReplayedTwice ==
    (/\ script = "app1"
     /\ pc \in {"page", "TypeError"}
     /\ Len(live) = 1
     /\ Missing(live[1]) = 0
     /\ Count(hist, live[1]) >= 1)
    => LET r == [live[1] EXCEPT !.surface = lower(@)]
           once == update_elo(EmptyDict, r.winner_name, r.loser_name, r.surface).store
           twice == update_elo(once, r.winner_name, r.loser_name, r.surface).store
       IN  /\ Count(Applied, r) = Count(hist, live[1]) + 1
           /\ Len(Applied) = Len(matches)
           /\ hist = live => elo_ratings = twice /\ elo_ratings # once

\* the replay has ended on a historical frame and a live frame that hold the
\* same single record between two competitors
C6_Witness ==
    /\ script = "app1"
    /\ pc = "page"
    /\ Len(hist) = 1
    /\ hist = live
    /\ Missing(hist[1]) = 0
    /\ hist[1].winner_name # hist[1].loser_name
    /\ Len(Applied) = 2

-----------------------------------------------------------------------------
\* C7: replaying the single record (winner A, loser B, partition p), A # B, from
\* an empty store yields rating(A, p) = 1516 and rating(B, p) = 1484.
C7_FirstRecord ==
    (Len(Applied) = 1 /\ Applied[1].winner_name # Applied[1].loser_name)
    => /\ Rating(elo_ratings, Applied[1].winner_name, Applied[1].surface) = FromInt(1516)
       /\ Rating(elo_ratings, Applied[1].loser_name, Applied[1].surface) = FromInt(1484)

\* one record between two competitors has been replayed on clay by app1.py
C7_Witness ==
    /\ script = "app1"
    /\ Len(Applied) = 1
    /\ Applied[1].winner_name # Applied[1].loser_name
    /\ Applied[1].surface = "clay"
    /\ Cell(elo_ratings, Applied[1].winner_name, "clay") # <<>>
    /\ Cell(elo_ratings, Applied[1].loser_name, "clay") # <<>>

-----------------------------------------------------------------------------
\* the ratings the store holds in some partition, and the baseline
StoredRatings ==
    {FromInt(BASE_ELO)} \cup
    {Rating(elo_ratings, c, p) : c \in DOMAIN elo_ratings, p \in Partitions}

\* predict(Ra, Rb) + predict(Rb, Ra), as the sum of two floats
SymmetrySum(Ra, Rb) == fadd(expected_score(Ra, Rb), expected_score(Rb, Ra))

\* one unit in the last place of 1.0
UlpOne == 2^(FracBits + 1 - Precision)

\* C8 as stated: for all ratings Ra and Rb, predict(Ra,Rb) + predict(Rb,Ra) = 1
\* exactly.
C8_SymmetryExact ==
    \A Ra, Rb \in StoredRatings : SymmetrySum(Ra, Rb) = ONE

\* C8: for all ratings Ra and Rb the replay stores,
\* predict(Ra,Rb) + predict(Rb,Ra) differs from 1 by at most one unit in the
\* last place of 1.0, and is exactly 1 when Ra = Rb. (The sum of two floats
\* does not depend on their order, so each pair is taken once, Ra <= Rb.)
C8_SymmetryRounded ==
    \A Ra, Rb \in StoredRatings :
        Ra <= Rb =>
            \E sum \in {SymmetrySum(Ra, Rb)} :
                /\ Abs(sum - ONE) <= UlpOne
                /\ Ra = Rb => sum = ONE

\* the store holds two different ratings whose two predictions do not add up to 1
C8_Witness ==
    \E Ra, Rb \in StoredRatings :
        /\ Ra # Rb
        /\ SymmetrySum(Ra, Rb) # ONE
        /\ expected_score(Ra, Rb) > 0
        /\ expected_score(Rb, Ra) > 0

-----------------------------------------------------------------------------
\* C9: when the page has been drawn, the leaderboard lists every competitor of
\* the store once with its rating in the selected partition (the baseline 1500
\* when it has none there), in non-increasing order of rating, with at most
\* `limit` entries; and for every limit n its first n rows are at most n rows
\* that leave out no competitor rated strictly higher than a listed one.
C9_Leaderboard ==
    pc = "done" =>
       LET limit == IF script = "app" THEN app_TOP ELSE TOP
           listed(df) == {df[k][1] : k \in 1..Len(df)}
       IN  /\ Len(top_df) <= limit
           /\ Len(top_df) = Cardinality(DOMAIN elo_ratings)
           /\ listed(top_df) = DOMAIN elo_ratings
           /\ \A k \in 1..Len(top_df) :
                 top_df[k][2] = Rating(elo_ratings, top_df[k][1], surface)
           /\ \A a, b \in 1..Len(top_df) : a < b => top_df[a][2] >= top_df[b][2]
           /\ \A n \in 0..Len(top_df) :
                 /\ Len(head(top_df, n)) <= n
                 /\ \A c \in DOMAIN elo_ratings \ listed(head(top_df, n)) :
                    \A k \in 1..Len(head(top_df, n)) :
                       Rating(elo_ratings, c, surface) <= head(top_df, n)[k][2]

\* app1.py has drawn a leaderboard of three competitors with three different
\* ratings, one of them without a rating in the selected partition
C9_Witness ==
    /\ pc = "done"
    /\ script = "app1"
    /\ Len(top_df) = 3
    /\ top_df[1][2] > top_df[2][2]
    /\ top_df[2][2] > top_df[3][2]
    /\ \E k \in 1..3 : Cell(elo_ratings, top_df[k][1], surface) = <<>>

-----------------------------------------------------------------------------
RECURSIVE SumOver(_, _)
\* the sum over the competitors S of rating(c, p) - 1500
SumOver(S, p) ==
    IF S = {} THEN 0
    ELSE LET c == CHOOSE x \in S : TRUE
         IN  (Rating(elo_ratings, c, p) - FromInt(BASE_ELO)) + SumOver(S \ {c}, p)

RatingSum(p) == SumOver(DOMAIN elo_ratings, p)

\* the replayed records of one competitor against itself
SelfPlays == Cardinality({k \in 1..Len(Applied) :
                              Applied[k].winner_name = Applied[k].loser_name})

\* one unit in the last place of a rating between 1024 and 2048
UlpRating == 2^(FracBits + 11 - Precision)

\* C10 as stated: after any sequence of update_elo steps on records with
\* winner # loser, from an empty store, the sum over all competitors of
\* rating(c, p) - 1500 is 0 for every partition p.
C10_ZeroSumExact ==
    SelfPlays = 0 => \A p \in Partitions : RatingSum(p) = 0

\* C10: after n update_elo steps on records with winner # loser and s steps on
\* records with winner = loser, from an empty store, the sum over all
\* competitors of rating(c, p) - 1500 is within n units in the last place of a
\* rating of -16 * s: each step between two competitors moves the sum by the
\* rounding of its two writes only, each step of a competitor against itself
\* lowers it by K * (1 - Ea) = 16.
C10_ZeroSumRounded ==
    \A p \in Partitions :
        \/ script = "app1" /\ \A k \in 1..Len(Applied) : Applied[k].surface # p
        \/ Abs(RatingSum(p) + SelfPlays * FromInt(16)) <= (Len(Applied) - SelfPlays) * UlpRating

\* records between different competitors only have been replayed and the
\* ratings of a partition no longer sum to the baseline
C10_Witness ==
    /\ Len(Applied) > 0
    /\ SelfPlays = 0
    /\ \E p \in Partitions : RatingSum(p) # 0

====
